---- MODULE Spec2Model ----
(***************************************************************************)
(* Model of the RogerEbert.com review crawler                              *)
(* (src/scrapers/scrape_roger_ebert.py): RogerEbertScraper.crawl, save,    *)
(* _parse_listing, _extract_next_listing_urls, _get_soup and main.         *)
(*                                                                         *)
(* One sequential process; pc is its position in crawl()/save()/main().    *)
(* The site, the fetch outcomes and the initial output file are the        *)
(* environment.                                                            *)
(***************************************************************************)
EXTENDS Integers, Sequences, FiniteSets, TLC

\* ------------------------------------------------------------------ bounds
MaxLimit == 2      \* small sessions run with limit in -1..MaxLimit
MaxNext == 1       \* next-page URLs a generated listing page exposes
GetCap == 2        \* the per-URL GET counters saturate here

\* ------------------------------------------------------- program constants
SaveEvery == 10    \* "if collected % 10 == 0: self.save(...)"
EntryCap == 50     \* "if len(entries) >= 50: break"

\* -------------------------------------------------------------------- URLs
Home == "https://www.rogerebert.com/"
Reviews == "https://www.rogerebert.com/reviews"
Page2 == "https://www.rogerebert.com/reviews/page/2"

START_LISTING_URLS == <<Home, Reviews>>

\* f"https://www.rogerebert.com/reviews/page/{start_page}"
StartPageUrl(p) == IF p = 2 THEN "https://www.rogerebert.com/reviews/page/2"
                   ELSE "https://www.rogerebert.com/reviews/page/3"

Page3 == "https://www.rogerebert.com/reviews/page/3"

ListingURLs == {Home, Reviews, Page2, Page3}

R(i) == <<"review", i>>
ReviewURLs == {R(i) : i \in 1..(SaveEvery + 3)}

\* ---------------------------------------------------------------- helpers
Range(s) == {s[i] : i \in 1..Len(s)}

Contains(s, x) == \E i \in 1..Len(s) : s[i] = x

Perms(S) == {p \in [1..Cardinality(S) -> S] : \A i, j \in 1..Cardinality(S) : p[i] = p[j] => i = j}

IsPrefix(s, t) == Len(s) <= Len(t) /\ \A i \in 1..Len(s) : s[i] = t[i]

Bump(n) == IF n < GetCap THEN n + 1 ELSE n

\* --------------------------------------------------------------- documents
\* a document built by the crawl; the url is the listing entry's url
BuildDocument(url) == [url |-> url]

\* a stored document without a 'url' key
NoUrlDoc == [id |-> "rogerebert_000000000000"]

HasUrl(doc) == "url" \in DOMAIN doc

\* "for doc in existing_docs: if 'url' in doc: seen_review_urls.add(doc['url'])"
UrlsOf(docs) == {docs[i].url : i \in {j \in 1..Len(docs) : HasUrl(docs[j])}}

\* ------------------------------------------------------------ output file
\* state: "absent" no file; "ok" a JSON array (docs); "badjson" content on
\* which json.load raises JSONDecodeError (an empty or cut-off file
\* included); "badbytes" content that is not valid UTF-8, on which reading
\* the text raises UnicodeDecodeError
File(st, docs) == [state |-> st, docs |-> docs]

\* the documents a reader of the output file gets
FileDocs(f) == IF f.state = "ok" THEN f.docs ELSE <<>>

\* ------------------------------------------------------------ _parse_listing
\* candidate urls in page order, a repeated url kept at its first
\* occurrence, stopping once EntryCap entries were collected
RECURSIVE ParseFrom(_, _, _)
ParseFrom(anchors, i, entries) ==
  IF i > Len(anchors) \/ Len(entries) >= EntryCap THEN entries
  ELSE IF Contains(entries, anchors[i]) THEN ParseFrom(anchors, i + 1, entries)
  ELSE ParseFrom(anchors, i + 1, Append(entries, anchors[i]))

ParseListing(anchors) == ParseFrom(anchors, 1, <<>>)

\* every discovered url is appended, in the queue already or not
EnqueueAll(queue, discovered) == queue \o discovered

\* "for next_url in discovered_next: if next_url not in listing_queue: append"
RECURSIVE Enqueue(_, _)
Enqueue(queue, discovered) ==
  IF discovered = <<>> THEN queue
  ELSE Enqueue(IF Contains(queue, Head(discovered)) THEN queue
               ELSE Append(queue, Head(discovered)),
               Tail(discovered))

\* the seeds come before the requested start page
SeedQueueSeedsFirst(p) ==
  Enqueue(START_LISTING_URLS, IF p > 1 THEN <<StartPageUrl(p)>> ELSE <<>>)

\* listing_queue as seeded before the loop
SeedQueue(p) ==
  LET q0 == IF p > 1 THEN <<StartPageUrl(p)>> ELSE <<>>
  IN Enqueue(q0, START_LISTING_URLS)

\* ------------------------------------------------------------ pure values
\* Optional[x]: None or a value
None == <<>>

Some(x) == <<x>>

\* a text is a sequence of words, the empty string the empty sequence;
\* numbers are decimal fixed-point values in hundredths (2.5 is 250)
Truthy(text) == text # <<>>

\* "a or b" on strings
OrElse(a, b) == IF Truthy(a) THEN a ELSE b

\* the second operand is preferred
OrOptSecond(a, b) == IF b # None THEN b ELSE a

\* "a or b" on optionals whose values are truthy
OrOpt(a, b) == IF a # None THEN a ELSE b

\* re.search(r'(19|20)\d{2}', word): the match inside one word
YearInWord(word) ==
  CASE word = "1995" -> Some(1995)
    [] word = "2049" -> Some(2049)
    [] word = "(2019)" -> Some(2019)
    [] OTHER -> None

\* ScraperUtils.extract_year: the leftmost match
RECURSIVE extract_year(_)
extract_year(text) ==
  IF text = <<>> THEN None
  ELSE IF YearInWord(Head(text)) # None THEN YearInWord(Head(text))
  ELSE extract_year(Tail(text))

\* float(raw): the value, or None where float() raises ValueError
Float(raw) ==
  CASE raw = "0" -> Some(0)
    [] raw = "2.5" -> Some(250)
    [] raw = "3" -> Some(300)
    [] raw = "4.0" -> Some(400)
    [] raw = "5" -> Some(500)
    [] raw = "-1" -> Some(-100)
    [] OTHER -> None

\* cls.startswith("star") and cls[4:].isdigit(): float(cls[4:]) / 10.0
StarValue(cls) ==
  CASE cls = "star00" -> Some(0)
    [] cls = "star35" -> Some(350)
    [] cls = "star50" -> Some(500)
    [] OTHER -> None

\* round(n / d) to the nearest integer, ties to the even one (d > 0)
RoundHalfEven(n, d) ==
  LET q == n \div d
      r == n - q * d
  IN IF 2 * r < d THEN q
     ELSE IF 2 * r > d THEN q + 1
     ELSE IF q % 2 = 0 THEN q ELSE q + 1

\* ScraperUtils.normalize_rating: round((rating / max_rating) * 10.0, 1)
normalize_rating(rating, max_rating) ==
  IF max_rating = 0 THEN 0
  ELSE 10 * RoundHalfEven(rating * 100, max_rating)

\* hashlib.md5(text.encode()).hexdigest()[:12], left uninterpreted
Md5Hex12(text) == <<"md5[:12]", text>>

\* ScraperUtils.generate_id
generate_id(text, prefix) ==
  IF prefix # "" THEN <<prefix, "_", Md5Hex12(text)>> ELSE <<Md5Hex12(text)>>

\* a raw text holds words and runs of whitespace
Whitespace == {" ", "\n"}

NotWhitespace(w) == w \notin Whitespace

\* ScraperUtils.clean_text: whitespace collapsed and stripped, which leaves
\* the words
clean_text(text) == SelectSeq(text, NotWhitespace)

\* --------------------------------------------------------- listing entries
\* the entry _parse_listing makes of one review link
ListingEntry(url, linkText, summary) ==
  LET title == OrElse(clean_text(linkText), <<"Untitled", "Review">>)
  IN [title |-> title,
      url |-> url,
      year |-> OrOpt(extract_year(title), extract_year(summary)),
      critic |-> None,
      summary |-> summary]

\* ------------------------------------------------------------ detail pages
SITE == "rogerebert"

\* ReviewDetails.rating_scale, never set by _fetch_review: 4.0
RATING_SCALE == 400

\* _extract_rating: the rating meta tag, else the star-box class, else the
\* data-rating attribute
RECURSIVE FirstStar(_)
FirstStar(classes) ==
  IF classes = <<>> THEN None
  ELSE IF StarValue(Head(classes)) # None THEN StarValue(Head(classes))
  ELSE FirstStar(Tail(classes))

HasContent(attr) == attr # None /\ attr[1] # ""

\* a meta tag whose content is no number ends the search
_extract_rating_meta_final(page) ==
  IF HasContent(page.ratingMeta)
    THEN Float(page.ratingMeta[1])
  ELSE IF page.starBox # None /\ FirstStar(page.starBox[1]) # None
    THEN FirstStar(page.starBox[1])
  ELSE IF HasContent(page.dataRating)
    THEN Float(page.dataRating[1])
  ELSE None

_extract_rating(page) ==
  IF HasContent(page.ratingMeta) /\ Float(page.ratingMeta[1]) # None
    THEN Float(page.ratingMeta[1])
  ELSE IF page.starBox # None /\ FirstStar(page.starBox[1]) # None
    THEN FirstStar(page.starBox[1])
  ELSE IF HasContent(page.dataRating)
    THEN Float(page.dataRating[1])
  ELSE None

\* _extract_movie_title: the cleaned text of the heading, None without one
_extract_movie_title(page) ==
  IF page.heading # None THEN Some(clean_text(page.heading[1])) ELSE None

\* the texts of a sequence joined by single spaces
RECURSIVE Join(_)
Join(texts) == IF texts = <<>> THEN <<>> ELSE Head(texts) \o Join(Tail(texts))

\* _extract_review_body: the empty string without a content container, else
\* the non-empty paragraphs of the container, joined
_extract_review_body(page) ==
  IF page.body = None THEN <<>> ELSE Join(SelectSeq(page.body[1], Truthy))

\* an optional string is truthy when present and not empty
TruthyOpt(o) == o # None /\ Truthy(o[1])

\* _fetch_review on a page that was fetched
_fetch_review(page) ==
  LET movie_title == _extract_movie_title(page)
  IN [review_text |-> OrElse(_extract_review_body(page), page.summary),
      rating_value |-> _extract_rating(page),
      rating_scale |-> RATING_SCALE,
      review_date |-> page.review_date,
      critic |-> page.critic,
      movie_year |-> IF TruthyOpt(movie_title) THEN extract_year(movie_title[1]) ELSE None,
      movie_title |-> movie_title,
      movie_genres |-> page.genres,
      movie_directors |-> page.directors,
      movie_cast |-> page.cast]

\* -------------------------------------------------------- document builder
\* the id is made of the url too
create_movie_document_url_id(title, year, site, url, rating, genres, directors, cast, plot, reviews, num_reviews) ==
  [id |-> generate_id(<<title, "_", year, "_", site, "_", url>>, site),
   title |-> title,
   year |-> year,
   site |-> site,
   url |-> url,
   rating |-> rating,
   genres |-> genres,
   directors |-> directors,
   cast |-> cast,
   plot |-> plot,
   reviews |-> reviews,
   num_reviews |-> num_reviews]

\* create_movie_document
create_movie_document(title, year, site, url, rating, genres, directors, cast, plot, reviews, num_reviews) ==
  [id |-> generate_id(<<title, "_", year, "_", site>>, site),
   title |-> title,
   year |-> year,
   site |-> site,
   url |-> url,
   rating |-> rating,
   genres |-> genres,
   directors |-> directors,
   cast |-> cast,
   plot |-> plot,
   reviews |-> reviews,
   num_reviews |-> num_reviews]

\* doc.update({...}) of _build_document
DocUpdate(doc, entry, details) ==
  [f \in DOMAIN doc \cup {"critic", "review_date", "rating_value", "rating_scale", "summary"} |->
     CASE f = "critic" -> OrOpt(details.critic, entry.critic)
       [] f = "review_date" -> details.review_date
       [] f = "rating_value" -> details.rating_value
       [] f = "rating_scale" -> details.rating_scale
       [] f = "summary" -> entry.summary
       [] OTHER -> doc[f]]

\* a missing rating value counts as zero stars
rating_normalized_zero(details) ==
  IF details.rating_value # None
    THEN Some(normalize_rating(details.rating_value[1], details.rating_scale))
    ELSE Some(0)

\* rating_normalized of _build_document
rating_normalized(details) ==
  IF details.rating_value # None
    THEN Some(normalize_rating(details.rating_value[1], details.rating_scale))
    ELSE None

\* _build_document
_build_document(entry, details) ==
  LET title == IF TruthyOpt(details.movie_title) THEN details.movie_title[1] ELSE entry.title
      year == OrOpt(details.movie_year, entry.year)
  IN DocUpdate(
       create_movie_document(title, IF year # None THEN year[1] ELSE 0, SITE, entry.url,
                             rating_normalized(details), details.movie_genres, details.movie_directors,
                             details.movie_cast, OrElse(entry.summary, details.review_text),
                             details.review_text, None),
       entry, details)

\* ------------------------------------------------------------- pagination
\* a url is an origin and a path; an href may lack the origin
BASE_URL == "https://www.rogerebert.com"

LookalikeOrigin == "https://www.rogerebert.com.example.org"

OtherOrigin == "https://example.org"

Url(origin, path) == [origin |-> Some(origin), path |-> path]

\* urllib.parse.urljoin(base, href)
urljoin(base, href) ==
  IF href.origin # None THEN href ELSE [origin |-> base.origin, path |-> href.path]

\* u.startswith(BASE_URL): a comparison of leading characters
StartsWithBase(u) == u.origin[1] \in {BASE_URL, LookalikeOrigin}

\* an element of the page is None when the page has none, and holds the
\* element's href, itself None when the attribute is missing or empty
HrefOf(element, current_url) ==
  IF element # None /\ element[1] # None THEN {urljoin(current_url, element[1][1])} ELSE {}

\* only the first strategy that has an element is followed
_extract_next_listing_urls_first(soup, current_url) ==
  LET next_link == OrOpt(soup.relNext, soup.paginationNext)
      urls == IF soup.headLink # None THEN HrefOf(soup.headLink, current_url)
              ELSE IF next_link # None THEN HrefOf(next_link, current_url)
              ELSE HrefOf(soup.moreReviews, current_url)
  IN {u \in urls : StartsWithBase(u)}

\* _extract_next_listing_urls: the urls of the returned list
_extract_next_listing_urls(soup, current_url) ==
  LET next_link == OrOpt(soup.relNext, soup.paginationNext)
      urls == HrefOf(soup.headLink, current_url)
                \cup HrefOf(next_link, current_url)
                \cup HrefOf(soup.moreReviews, current_url)
  IN {u \in urls : StartsWithBase(u)}

\* ------------------------------------------------------------ review links
\* the path of a link: a directory and a slug of hyphen-separated words,
\* slug the number of the slug among those of its length
Path(dir, words, slug) == [dir |-> dir, words |-> words, slug |-> slug]

\* 'a[href*="/reviews/"]': the href holds "/reviews/" somewhere
SelectedHref(href) == href.path.dir \in {"/reviews/", "/blog/reviews/"}

\* _looks_like_review: the path starts with /reviews/ and has two hyphens
\* or more
_looks_like_review(url) == url.path.dir = "/reviews/" /\ url.path.words - 1 >= 2

BaseUrl == [origin |-> Some(BASE_URL), path |-> Path("/", 0, 0)]

\* the resolved url of a link, None for a link that is passed over
ReviewUrl(link) ==
  IF link.href = None \/ ~SelectedHref(link.href[1]) THEN None
  ELSE IF ~_looks_like_review(urljoin(BaseUrl, link.href[1])) THEN None
  ELSE Some(urljoin(BaseUrl, link.href[1]))

EntryUrls(entries) == {entries[i].url : i \in DOMAIN entries}

\* the entry list is cut after the cap is passed, not when it is reached
RECURSIVE _parse_listing_late_cap(_, _)
_parse_listing_late_cap(links, entries) ==
  IF links = <<>> \/ Len(entries) > EntryCap THEN entries
  ELSE LET link == Head(links)
           review_url == ReviewUrl(link)
       IN IF review_url = None \/ review_url[1] \in EntryUrls(entries)
            THEN _parse_listing_late_cap(Tail(links), entries)
            ELSE _parse_listing_late_cap(Tail(links),
                   Append(entries, ListingEntry(review_url[1], link.text, link.teaser)))

\* _parse_listing: the entries, from the links of the page in document
\* order and the entries made so far
RECURSIVE _parse_listing(_, _)
_parse_listing(links, entries) ==
  IF links = <<>> \/ Len(entries) >= EntryCap THEN entries
  ELSE LET link == Head(links)
           review_url == ReviewUrl(link)
       IN IF review_url = None \/ review_url[1] \in EntryUrls(entries)
            THEN _parse_listing(Tail(links), entries)
            ELSE _parse_listing(Tail(links),
                   Append(entries, ListingEntry(review_url[1], link.text, link.teaser)))

\* ------------------------------------------------------ binary64 arithmetic
\* A natural number of any size is the sequence of its digits to the base
\* LIMB, the least significant first and the last one not 0; zero is the
\* empty sequence.
LIMB_BITS == 15

LIMB == 2 ^ LIMB_BITS

RECURSIVE BigOf(_)
BigOf(n) == IF n = 0 THEN <<>> ELSE <<n % LIMB>> \o BigOf(n \div LIMB)

RECURSIVE ValueOf(_)
ValueOf(a) == IF a = <<>> THEN 0 ELSE Head(a) + LIMB * ValueOf(Tail(a))

RECURSIVE Trim(_)
Trim(a) == IF a = <<>> \/ a[Len(a)] # 0 THEN a ELSE Trim(SubSeq(a, 1, Len(a) - 1))

Digit(a, i) == IF i <= Len(a) THEN a[i] ELSE 0

RECURSIVE AddCarry(_, _, _)
AddCarry(a, b, c) ==
  IF a = <<>> /\ b = <<>> THEN (IF c = 0 THEN <<>> ELSE <<c>>)
  ELSE LET sum == Digit(a, 1) + Digit(b, 1) + c
       IN <<sum % LIMB>> \o AddCarry(SubSeq(a, 2, Len(a)), SubSeq(b, 2, Len(b)), sum \div LIMB)

Add(a, b) == AddCarry(a, b, 0)

\* a - b for a >= b
RECURSIVE SubBorrow(_, _, _)
SubBorrow(a, b, c) ==
  IF a = <<>> THEN <<>>
  ELSE LET d == Head(a) - Digit(b, 1) - c
       IN <<d % LIMB>> \o SubBorrow(Tail(a), SubSeq(b, 2, Len(b)), IF d < 0 THEN 1 ELSE 0)

Sub(a, b) == Trim(SubBorrow(a, b, 0))

\* a < b
Less(a, b) ==
  IF Len(a) # Len(b) THEN Len(a) < Len(b)
  ELSE \E i \in 1..Len(a) : a[i] < b[i] /\ \A j \in (i + 1)..Len(a) : a[j] = b[j]

\* a * m + c for a digit m
RECURSIVE MulDigit(_, _, _)
MulDigit(a, m, c) ==
  IF a = <<>> THEN (IF c = 0 THEN <<>> ELSE <<c>>)
  ELSE <<(Head(a) * m + c) % LIMB>> \o MulDigit(Tail(a), m, (Head(a) * m + c) \div LIMB)

RECURSIVE Mul(_, _)
Mul(a, b) ==
  IF a = <<>> \/ b = <<>> THEN <<>>
  ELSE Add(Trim(MulDigit(a, Head(b), 0)),
           LET rest == Mul(a, Tail(b)) IN IF rest = <<>> THEN <<>> ELSE <<0>> \o rest)

\* the number of binary digits of a
BitLen(a) ==
  IF a = <<>> THEN 0
  ELSE LIMB_BITS * (Len(a) - 1) + (CHOOSE k \in 1..LIMB_BITS : 2 ^ (k - 1) <= a[Len(a)] /\ a[Len(a)] < 2 ^ k)

\* 2^k
Pow2(k) == [i \in 1..(k \div LIMB_BITS) |-> 0] \o <<2 ^ (k % LIMB_BITS)>>

\* a * 2^k
Shl(a, k) == Mul(a, Pow2(k))

\* floor(a / 2^k)
Shr(a, k) ==
  LET whole == k \div LIMB_BITS
      part == k % LIMB_BITS
  IN Trim([i \in 1..(Len(a) - whole) |->
             (Digit(a, i + whole) \div 2 ^ part)
               + (Digit(a, i + whole + 1) % 2 ^ part) * 2 ^ (LIMB_BITS - part)])

\* the leading binary digits of n / d for n < 2 * d, two more than a double
\* holds: q is the digits found, and the rest of the quotient is below one
\* unit of q and is zero just when r is
RECURSIVE Quotient(_, _, _)
Quotient(r, d, q) ==
  IF BitLen(q) = 55 THEN [q |-> q, r |-> r]
  ELSE IF Less(r, d) THEN Quotient(Add(r, r), d, Add(q, q))
  ELSE Quotient(Add(Sub(r, d), Sub(r, d)), d, Add(Add(q, q), <<1>>))

\* floor(a / 2^t) rounded by the digits dropped, sticky telling that
\* further nonzero digits lie below them: to nearest, a tie to even
RoundShr(a, t, sticky) ==
  IF t <= 0 THEN a
  ELSE LET kept == Shr(a, t)
           above == Shr(a, t - 1)
           guard == Digit(above, 1) % 2
           rest == sticky \/ a # Shl(above, t - 1)
           odd == Digit(kept, 1) % 2 = 1
       IN IF guard = 1 /\ (rest \/ odd) THEN Add(kept, <<1>>) ELSE kept

\* a double is m * 2^e with m of 53 binary digits (zero: m empty, e 0);
\* exponents stay far from the ends of the range
MANT_DIG == 53

Zero64 == [m |-> <<>>, e |-> 0]

\* the double nearest to a * 2^e (and to slightly more, if sticky)
Round64(a, e, sticky) ==
  IF a = <<>> THEN Zero64
  ELSE IF BitLen(a) <= MANT_DIG
    THEN [m |-> Shl(a, MANT_DIG - BitLen(a)), e |-> e - (MANT_DIG - BitLen(a))]
  ELSE LET t == BitLen(a) - MANT_DIG
           m == RoundShr(a, t, sticky)
       IN IF BitLen(m) > MANT_DIG THEN [m |-> Shr(m, 1), e |-> e + t + 1]
          ELSE [m |-> m, e |-> e + t]

\* x * y
Mul64(x, y) == Round64(Mul(x.m, y.m), x.e + y.e, FALSE)

\* x / y for y # 0: the first digit of the quotient of the mantissas is at
\* 2^0 when x.m >= y.m and at 2^-1 otherwise
Div64(x, y) ==
  IF x.m = <<>> THEN Zero64
  ELSE LET d == Quotient(x.m, y.m, <<>>)
       IN Round64(d.q, x.e - y.e - (IF Less(x.m, y.m) THEN 55 ELSE 54), d.r # <<>>)

\* the double a decimal literal n/d denotes, float(n) for d = 1
Literal64(n, d) == Div64(Round64(BigOf(n), 0, FALSE), Round64(BigOf(d), 0, FALSE))

\* round(x, 1), in tenths: the exact value of x to the nearest tenth, a tie
\* to the even one
Round1(x) ==
  LET tens == Mul(x.m, BigOf(10))
  IN ValueOf(IF x.e >= 0 THEN Shl(tens, x.e) ELSE RoundShr(tens, 0 - x.e, FALSE))

\* ScraperUtils.normalize_rating on doubles, the result in tenths
normalize_rating_64(rating, max_rating) ==
  IF max_rating = Zero64 THEN 0
  ELSE Round1(Mul64(Div64(rating, max_rating), Literal64(10, 1)))

\* -------------------------------------------------------------------- state
VARIABLES
  site,              \* the web site: anchors and next links of each listing page
  limit,             \* crawl(limit=...)
  start_page,        \* crawl(start_page=...)
  startFile,         \* the output file as it was when the session started
  file,              \* the output file
  documents,         \* self.documents
  seen_review_urls,  \* seen_review_urls
  collected,         \* collected
  listing_queue,     \* listing_queue
  entries,           \* the entries the "for entry in entries" loop has left
  pc,                \* position of the process
  listingGets,       \* GETs issued per listing url (saturating at GetCap)
  detailGets,        \* GETs issued per review url (saturating at GetCap)
  getTick,           \* flips at every GET
  lastGetOk,         \* whether the most recent GET yielded a page
  anyFail,           \* whether some GET of the session failed
  lastWarn,          \* the warning _get_soup printed in its most recent call
  call               \* a call of the page-level functions: its arguments and results

vars == <<site, limit, start_page, startFile, file, documents, seen_review_urls,
          collected, listing_queue, entries, pc, listingGets, detailGets,
          getTick, lastGetOk, anyFail, lastWarn, call>>

inputs == <<site, limit, start_page, startFile>>

gets == <<listingGets, detailGets, getTick, lastGetOk, anyFail, lastWarn>>

crawlState == <<documents, seen_review_urls, collected, listing_queue, entries>>

\* -------------------------------------------------------------- the sites
\* next[l]: the same-site urls _extract_next_listing_urls finds on page l;
\* anchors[l]: the qualifying review urls of the anchors of page l, in
\* document order
Site(next, anchors) == [next |-> next, anchors |-> anchors]

NoNext == [l \in ListingURLs |-> {}]

NoAnchors == [l \in ListingURLs |-> <<>>]

Over(f, g) == [l \in ListingURLs |-> IF l \in DOMAIN g THEN g[l] ELSE f[l]]

\* the generated sites: every choice of next links on the two seed pages,
\* page 2 leading back to /reviews
GenListing == {Home, Reviews}

NextChoices == {S \in SUBSET {Home, Reviews, Page2} : Cardinality(S) <= MaxNext}

GenNext == {Over(NoNext, n @@ (Page2 :> {Reviews})) : n \in [GenListing -> NextChoices]}

GenAnchors ==
  {Over(NoAnchors, (Home :> h) @@ (Reviews :> <<R(2), R(1)>>) @@ (Page2 :> <<R(2)>>)) :
     h \in {<<R(1), R(2), R(1)>>, <<>>}}

GenSites == {Site(n, a) : n \in GenNext, a \in GenAnchors}

\* page 1 with three review links and a next link to page 2, page 2 with
\* two review links and no next link
TwoPageSiteA ==
  Site(Over(NoNext, (Home :> {Reviews})),
       Over(NoAnchors, (Home :> <<R(1), R(2), R(3)>>) @@ (Reviews :> <<R(4), R(5)>>)))

TwoPageSiteB ==
  Site(Over(NoNext, (Reviews :> {Page2})),
       Over(NoAnchors, (Reviews :> <<R(1), R(2), R(3)>>) @@ (Page2 :> <<R(4), R(5)>>)))

TwoPageSites == {TwoPageSiteA, TwoPageSiteB}

\* a page exposing several next urls, one of them leading back
FanSite ==
  Site(Over(NoNext, (Home :> {Page2, Page3, Reviews}) @@ (Page3 :> {Home, Page2})),
       Over(NoAnchors, (Home :> <<R(1)>>) @@ (Page2 :> <<R(1), R(2)>>) @@ (Page3 :> <<R(3)>>)))

\* enough reviews for a periodic save
BigSite ==
  Site(Over(NoNext, (Home :> {Page2})),
       Over(NoAnchors,
            (Home :> [i \in 1..SaveEvery |-> R(i)])
            @@ (Reviews :> <<R(SaveEvery), R(SaveEvery + 1)>>)
            @@ (Page2 :> <<R(SaveEvery + 2)>>)))

\* ------------------------------------------------------- the output files
Absent == File("absent", <<>>)

SmallFiles ==
  {Absent, File("badjson", <<>>), File("badbytes", <<>>), File("ok", <<>>),
   File("ok", <<BuildDocument(R(1))>>),
   File("ok", <<BuildDocument(R(1)), BuildDocument(R(1))>>),
   File("ok", <<NoUrlDoc, BuildDocument(R(2))>>)}

\* ----------------------------------------------------------- the sessions
Session(s, l, p, f) == [site |-> s, limit |-> l, start_page |-> p, file |-> f]

Sessions ==
  {Session(s, MaxLimit, 1, f) : s \in GenSites, f \in {Absent, File("ok", <<BuildDocument(R(1))>>)}}
  \cup {Session(TwoPageSiteA, l, 1, f) : l \in (-1)..MaxLimit, f \in SmallFiles}
  \cup {Session(s, l, p, Absent) : s \in TwoPageSites, l \in {2, SaveEvery}, p \in {1, 3}}
  \cup {Session(FanSite, MaxLimit, p, Absent) : p \in {1, 2}}
  \cup {Session(BigSite, SaveEvery + 2, 1, File("ok", <<BuildDocument(R(SaveEvery + 3))>>))}

\* no page-level call is followed
NoCall == [fn |-> "none"]

Init ==
  /\ \E x \in Sessions :
       /\ site = x.site
       /\ limit = x.limit
       /\ start_page = x.start_page
       /\ startFile = x.file
       /\ file = x.file
  /\ documents = <<>>
  /\ seen_review_urls = {}
  /\ collected = 0
  /\ listing_queue = <<>>
  /\ entries = <<>>
  /\ pc = "start"
  /\ listingGets = [l \in ListingURLs |-> 0]
  /\ detailGets = [r \in ReviewURLs |-> 0]
  /\ getTick = 0
  /\ lastGetOk = TRUE
  /\ anyFail = FALSE
  /\ lastWarn = "none"
  /\ call = NoCall

\* ------------------------------------------------------------------ crawl
\* crawl(), the "load existing data" block up to the seeding of the queue.
\* Only json.JSONDecodeError is caught.
CrawlStart ==
  /\ pc = "start"
  /\ file.state # "badbytes"
  /\ documents' = IF file.state = "ok" THEN file.docs ELSE <<>>
  /\ seen_review_urls' = IF file.state = "ok" THEN UrlsOf(file.docs) ELSE {}
  /\ collected' = 0
  /\ listing_queue' = SeedQueue(start_page)
  /\ pc' = "loop"
  /\ UNCHANGED <<inputs, call, file, entries, gets>>

\* reading a file that is not valid UTF-8 raises UnicodeDecodeError, which
\* crawl() does not catch
CrawlStartRaises ==
  /\ pc = "start"
  /\ file.state = "badbytes"
  /\ pc' = "aborted"
  /\ UNCHANGED <<inputs, call, file, crawlState, gets>>

\* the outcomes of a GET: a page, an HTTP error status raised by
\* raise_for_status, or a transport error without a response
Ok == "200"

FailStatuses == {"403", "429", "500", "no response"}

\* "if status in (403, 429)": the access-blocked warning, else the plain one
Warning(status) ==
  IF status = Ok THEN "none"
  ELSE IF status \in {"403", "429"} THEN "blocked" ELSE "failed"

\* _get_soup: one GET; the ghost counters record it
Get(isListing, url, status) ==
  /\ listingGets' = IF isListing THEN [listingGets EXCEPT ![url] = Bump(@)] ELSE listingGets
  /\ detailGets' = IF isListing THEN detailGets ELSE [detailGets EXCEPT ![url] = Bump(@)]
  /\ getTick' = 1 - getTick
  /\ lastGetOk' = (status = Ok)
  /\ anyFail' = (anyFail \/ status # Ok)
  /\ lastWarn' = Warning(status)

\* "while listing_queue and collected < limit"
LoopCondNoBreak(queue, c, l) == queue # <<>> /\ c <= l

LoopCond(queue, c, l) == queue # <<>> /\ c < l

LoopRuns == LoopCond(listing_queue, collected, limit)

\* "if collected >= limit: break"
LimitReachedOffByOne(c, l) == c > l

LimitReached(c, l) == c >= l

\* "if entry.url in seen_review_urls: continue"
AlreadySeenNever(url, seen) == FALSE

AlreadySeen(url, seen) == url \in seen

\* "seen_review_urls.add(entry.url)"
MarkSeenDropped(seen, url) == seen

MarkSeen(seen, url) == seen \cup {url}

\* "while listing_queue and collected < limit" is false: crawl() returns
LoopExit ==
  /\ pc = "loop"
  /\ ~LoopRuns
  /\ pc' = "final_save"
  /\ UNCHANGED <<inputs, call, file, crawlState, gets>>

\* a blocked listing url is put back at the end of the queue
ListingFetchRequeuesBlocked ==
  /\ pc = "loop"
  /\ LoopRuns
  /\ \E status \in FailStatuses :
       /\ Get(TRUE, Head(listing_queue), status)
       /\ listing_queue' = IF Warning(status) = "blocked"
                              THEN Append(Tail(listing_queue), Head(listing_queue))
                              ELSE Tail(listing_queue)
  /\ UNCHANGED <<inputs, call, file, documents, seen_review_urls, collected, entries, pc>>

\* pop(0), _get_soup returns None, "continue"
ListingFetchFails ==
  /\ pc = "loop"
  /\ LoopRuns
  /\ \E status \in FailStatuses : Get(TRUE, Head(listing_queue), status)
  /\ listing_queue' = Tail(listing_queue)
  /\ UNCHANGED <<inputs, call, file, documents, seen_review_urls, collected, entries, pc>>

\* "if not entries: continue" comes before the discovered urls are enqueued
ListingFetchOkEmptyPageDropsNext ==
  /\ pc = "loop"
  /\ LoopRuns
  /\ LET listing_url == Head(listing_queue) IN
       /\ Get(TRUE, listing_url, Ok)
       /\ entries' = ParseListing(site.anchors[listing_url])
       /\ IF entries' = <<>>
            THEN listing_queue' = Tail(listing_queue)
            ELSE \E discovered_next \in Perms(site.next[listing_url]) :
                   listing_queue' = Enqueue(Tail(listing_queue), discovered_next)
       /\ pc' = IF entries' = <<>> THEN "loop" ELSE "entries"
  /\ UNCHANGED <<inputs, call, file, documents, seen_review_urls, collected>>

\* pop(0), the page is fetched and parsed, the discovered urls are enqueued
\* in the order the set of _extract_next_listing_urls is iterated
ListingFetchOk ==
  /\ pc = "loop"
  /\ LoopRuns
  /\ LET listing_url == Head(listing_queue) IN
       /\ Get(TRUE, listing_url, Ok)
       /\ \E discovered_next \in Perms(site.next[listing_url]) :
            listing_queue' = Enqueue(Tail(listing_queue), discovered_next)
       /\ entries' = ParseListing(site.anchors[listing_url])
       /\ pc' = IF entries' = <<>> THEN "loop" ELSE "entries"
  /\ UNCHANGED <<inputs, call, file, documents, seen_review_urls, collected>>

\* the for loop is exhausted
EntriesDone ==
  /\ pc = "entries"
  /\ entries = <<>>
  /\ pc' = "loop"
  /\ UNCHANGED <<inputs, call, file, crawlState, gets>>

\* "if collected >= limit: break"
EntriesBreak ==
  /\ pc = "entries"
  /\ entries # <<>>
  /\ LimitReached(collected, limit)
  /\ entries' = <<>>
  /\ pc' = "loop"
  /\ UNCHANGED <<inputs, call, file, documents, seen_review_urls, collected, listing_queue, gets>>

\* "if entry.url in seen_review_urls: continue"
EntrySeen ==
  /\ pc = "entries"
  /\ entries # <<>>
  /\ ~LimitReached(collected, limit)
  /\ AlreadySeen(Head(entries), seen_review_urls)
  /\ entries' = Tail(entries)
  /\ UNCHANGED <<inputs, call, file, documents, seen_review_urls, collected, listing_queue, pc, gets>>

\* the RequestException escapes _get_soup
DetailFetchRaises ==
  /\ pc = "entries"
  /\ entries # <<>>
  /\ ~LimitReached(collected, limit)
  /\ ~AlreadySeen(Head(entries), seen_review_urls)
  /\ \E status \in FailStatuses : Get(FALSE, Head(entries), status)
  /\ pc' = "aborted"
  /\ UNCHANGED <<inputs, call, file, crawlState>>

\* the candidate whose fetch failed is marked seen
DetailFetchFailsMarksSeen ==
  /\ pc = "entries"
  /\ entries # <<>>
  /\ ~LimitReached(collected, limit)
  /\ ~AlreadySeen(Head(entries), seen_review_urls)
  /\ \E status \in FailStatuses : Get(FALSE, Head(entries), status)
  /\ seen_review_urls' = seen_review_urls \cup {Head(entries)}
  /\ entries' = Tail(entries)
  /\ UNCHANGED <<inputs, call, file, documents, collected, listing_queue, pc>>

\* _fetch_review returns None, "continue"
DetailFetchFails ==
  /\ pc = "entries"
  /\ entries # <<>>
  /\ ~LimitReached(collected, limit)
  /\ ~AlreadySeen(Head(entries), seen_review_urls)
  /\ \E status \in FailStatuses : Get(FALSE, Head(entries), status)
  /\ entries' = Tail(entries)
  /\ UNCHANGED <<inputs, call, file, documents, seen_review_urls, collected, listing_queue, pc>>

\* the review is fetched, the document built, appended and marked seen
DetailFetchOk ==
  /\ pc = "entries"
  /\ entries # <<>>
  /\ ~LimitReached(collected, limit)
  /\ ~AlreadySeen(Head(entries), seen_review_urls)
  /\ Get(FALSE, Head(entries), Ok)
  /\ documents' = Append(documents, BuildDocument(Head(entries)))
  /\ seen_review_urls' = MarkSeen(seen_review_urls, Head(entries))
  /\ collected' = collected + 1
  /\ entries' = Tail(entries)
  /\ pc' = IF collected' % SaveEvery = 0 THEN "save" ELSE "entries"
  /\ UNCHANGED <<inputs, call, file, listing_queue>>

\* ------------------------------------------------------------------- save
\* open(self.output_file, "w") has truncated the file
Truncated == File("badjson", <<>>)

\* only the documents of this session are written
DumpedNewOnly(docs) == File("ok", SubSeq(docs, Len(docs) - collected + 1, Len(docs)))

\* json.dump(self.documents, fh) has completed and the file is closed
Dumped(docs) == File("ok", docs)

\* the periodic save is left out
PeriodicSaveSkipped ==
  /\ pc = "save"
  /\ pc' = "entries"
  /\ UNCHANGED <<inputs, call, file, crawlState, gets>>

\* "if collected % 10 == 0: self.save(verbose=False)": save() returns at
\* once without documents, else opens the file for writing
PeriodicSaveOpen ==
  /\ pc = "save"
  /\ IF documents = <<>>
       THEN pc' = "entries" /\ file' = file
       ELSE pc' = "save_write" /\ file' = Truncated
  /\ UNCHANGED <<inputs, call, crawlState, gets>>

PeriodicSaveWrite ==
  /\ pc = "save_write"
  /\ file' = Dumped(documents)
  /\ pc' = "entries"
  /\ UNCHANGED <<inputs, call, crawlState, gets>>

\* the final save is left out
FinalSaveSkipped ==
  /\ pc = "final_save"
  /\ pc' = "done"
  /\ UNCHANGED <<inputs, call, file, crawlState, gets>>

\* main(): scraper.save() after crawl() returned
FinalSaveOpen ==
  /\ pc = "final_save"
  /\ IF documents = <<>>
       THEN pc' = "done" /\ file' = file
       ELSE pc' = "final_write" /\ file' = Truncated
  /\ UNCHANGED <<inputs, call, crawlState, gets>>

FinalSaveWrite ==
  /\ pc = "final_write"
  /\ file' = Dumped(documents)
  /\ pc' = "done"
  /\ UNCHANGED <<inputs, call, crawlState, gets>>

\* the process is interrupted from outside
Running == pc \notin {"done", "aborted", "interrupted"}

Interrupt ==
  /\ Running
  /\ pc' = "interrupted"
  /\ UNCHANGED <<inputs, call, file, crawlState, gets>>

Step ==
  \/ CrawlStart
  \/ CrawlStartRaises
  \/ LoopExit
  \/ ListingFetchFails
  \/ ListingFetchOk
  \/ EntriesDone
  \/ EntriesBreak
  \/ EntrySeen
  \/ DetailFetchFails
  \/ DetailFetchOk
  \/ PeriodicSaveOpen
  \/ PeriodicSaveWrite
  \/ FinalSaveOpen
  \/ FinalSaveWrite

Next == Step \/ Interrupt

Spec == Init /\ [][Next]_vars

\* the process keeps running unless interrupted
FairSpec == Spec /\ WF_vars(Step)

\* ------------------------------------------------- the page-level functions
\* The functions that turn one fetched page into data, followed call by
\* call on pages and listing entries drawn from the sets below.
LinkTexts == {<<"\n", " ">>, <<"Heat">>, <<"Alien", " ", "(2019)">>}

Teasers == {<<>>, <<"From", "1995">>}

Entries == {ListingEntry(R(1), t, sm) : t \in LinkTexts, sm \in Teasers}

RatingMetas == {None, Some(""), Some("n/a"), Some("0"), Some("2.5"), Some("4.0"), Some("5"), Some("-1")}

StarBoxes == {None, Some(<<"filled">>), Some(<<"filled", "star35">>)}

DataRatings == {None, Some("stars"), Some("3")}

Headings == {None, Some(<<" ">>), Some(<<"Heat">>), Some(<<"Blade", " ", "Runner", "\n", "2049">>)}

\* no content container, one without text, one of three paragraphs
Bodies == {None, Some(<<>>), Some(<<<<"A">>, <<>>, <<"review">>>>)}

DetailPage(ratingMeta, starBox, dataRating, heading, body, summary) ==
  [ratingMeta |-> ratingMeta, starBox |-> starBox, dataRating |-> dataRating,
   heading |-> heading, body |-> body, summary |-> summary,
   review_date |-> Some("2001-01-01"), critic |-> Some("Roger Ebert"),
   genres |-> <<"Drama">>, directors |-> <<>>, cast |-> <<>>]

Pages ==
  {DetailPage(m, sb, d, h, b, sm) :
     m \in RatingMetas, sb \in StarBoxes, d \in DataRatings, h \in Headings,
     b \in Bodies, sm \in {<<>>}}
  \cup {DetailPage(None, None, None, h, b, <<"A", "deck">>) : h \in Headings, b \in Bodies}

BuildCalls ==
  {[fn |-> "build", stage |-> "fetched", entry |-> e, page |-> p, details |-> None, doc |-> None] :
     e \in Entries, p \in Pages}

CurrentUrl == Url(BASE_URL, "/reviews")

Hrefs ==
  {[origin |-> None, path |-> "/reviews/page/2"],
   Url(BASE_URL, "/reviews/page/2"),
   Url(BASE_URL, "/reviews/page/3"),
   Url(BASE_URL, "/reviews?more=1"),
   Url(LookalikeOrigin, "/reviews/page/2"),
   Url(OtherOrigin, "/reviews/page/2")}

\* no element, an element without href, an element with one
Elements == {None, Some(None)} \cup {Some(Some(h)) : h \in Hrefs}

ListingSoup(headLink, relNext, paginationNext, moreReviews) ==
  [headLink |-> headLink, relNext |-> relNext, paginationNext |-> paginationNext,
   moreReviews |-> moreReviews]

Soups ==
  {ListingSoup(a, b, c, d) : a \in Elements, b \in Elements, c \in {None, Some(Some(Url(BASE_URL, "/reviews/page/3")))}, d \in Elements}

Queues == {<<>>, <<Url(BASE_URL, "/reviews/page/2")>>}

NextCalls ==
  {[fn |-> "next", stage |-> "parsed", soup |-> sp, current_url |-> CurrentUrl,
    queue0 |-> q, listing_queue |-> q, next_urls |-> <<>>] :
     sp \in Soups, q \in Queues}

\* the links of listing pages
Link(href, text) == [href |-> Some(href), text |-> text, teaser |-> <<>>]

ReviewLink(slug) == Link([origin |-> None, path |-> Path("/reviews/", 3, slug)], <<"Heat">>)

SmallLinks ==
  {ReviewLink(1),
   ReviewLink(2),
   Link([origin |-> Some(BASE_URL), path |-> Path("/reviews/", 3, 1)], <<"Alien", " ", "(2019)">>),
   Link([origin |-> None, path |-> Path("/reviews/", 2, 1)], <<"Great", " ", "Movies">>),
   Link([origin |-> None, path |-> Path("/blog/reviews/", 3, 1)], <<"Heat">>),
   Link([origin |-> Some(OtherOrigin), path |-> Path("/reviews/", 3, 1)], <<"Heat">>),
   [href |-> None, text |-> <<"Heat">>, teaser |-> <<>>]}

MaxLinks == 3

SmallListings == UNION {[1..n -> SmallLinks] : n \in 0..MaxLinks}

ManyLinks(n) == [i \in 1..n |-> ReviewLink(i)]

LongListings ==
  {ManyLinks(EntryCap), ManyLinks(EntryCap + 1), ManyLinks(EntryCap + 2),
   ManyLinks(EntryCap - 1) \o <<ReviewLink(1), ReviewLink(2), ReviewLink(EntryCap), ReviewLink(EntryCap + 1)>>,
   <<ReviewLink(3)>> \o ManyLinks(EntryCap + 1)}

ParseCalls ==
  {[fn |-> "parse", stage |-> "parsed", links |-> l, entries |-> <<>>] :
     l \in SmallListings \cup LongListings}

crawlVars == <<inputs, file, crawlState, pc, gets>>

PureInit ==
  /\ call \in BuildCalls \cup NextCalls \cup ParseCalls
  /\ site = Site(NoNext, NoAnchors)
  /\ limit = 0
  /\ start_page = 1
  /\ startFile = Absent
  /\ file = Absent
  /\ documents = <<>>
  /\ seen_review_urls = {}
  /\ collected = 0
  /\ listing_queue = <<>>
  /\ entries = <<>>
  /\ pc = "done"
  /\ listingGets = [l \in ListingURLs |-> 0]
  /\ detailGets = [r \in ReviewURLs |-> 0]
  /\ getTick = 0
  /\ lastGetOk = TRUE
  /\ anyFail = FALSE
  /\ lastWarn = "none"

\* details = self._fetch_review(entry.url), the page fetched
FetchReviewCall ==
  /\ call.fn = "build"
  /\ call.stage = "fetched"
  /\ call' = [call EXCEPT !.details = Some(_fetch_review(call.page)), !.stage = "details"]
  /\ UNCHANGED crawlVars

\* doc = self._build_document(entry, details)
BuildDocumentCall ==
  /\ call.fn = "build"
  /\ call.stage = "details"
  /\ call' = [call EXCEPT !.doc = Some(_build_document(call.entry, call.details[1])),
                          !.stage = "built"]
  /\ UNCHANGED crawlVars

\* entries, discovered_next = self._parse_listing(listing_soup, listing_url):
\* the entries
ParseListingCall ==
  /\ call.fn = "parse"
  /\ call.stage = "parsed"
  /\ call' = [call EXCEPT !.entries = _parse_listing(call.links, <<>>), !.stage = "entries"]
  /\ UNCHANGED crawlVars

\* next_listing_urls = self._extract_next_listing_urls(soup, source_url):
\* a list made of a set, in any order
ExtractNextCall ==
  /\ call.fn = "next"
  /\ call.stage = "parsed"
  /\ \E order \in Perms(_extract_next_listing_urls(call.soup, call.current_url)) :
       call' = [call EXCEPT !.next_urls = order, !.stage = "extracted"]
  /\ UNCHANGED crawlVars

\* for next_url in next_urls: if next_url not in listing_queue: append
EnqueueCall ==
  /\ call.fn = "next"
  /\ call.stage = "extracted"
  /\ call' = [call EXCEPT !.listing_queue = Enqueue(call.listing_queue, call.next_urls),
                          !.stage = "enqueued"]
  /\ UNCHANGED crawlVars

PureNext ==
  \/ FetchReviewCall
  \/ BuildDocumentCall
  \/ ExtractNextCall
  \/ EnqueueCall
  \/ ParseListingCall

PureSpec == PureInit /\ [][PureNext]_vars

\* ------------------------------------------------------ rating normalization
\* normalize_rating called on doubles: a rating of so many tenths, a scale,
\* and both multiplied by a factor, the products either computed on doubles
\* or written as literals
MaxTenths == 40

Scales == {0, 4}

Factors == {2, 3}

NormalizeArgs(a, sc, k, how) ==
  [fn |-> "normalize", stage |-> "args",
   tenths |-> a, scale |-> sc, factor |-> k, scaled_by |-> how,
   rating |-> Literal64(a, 10),
   max_rating |-> Literal64(sc, 1),
   scaled_rating |-> IF how = "product" THEN Mul64(Literal64(a, 10), Literal64(k, 1))
                     ELSE Literal64(a * k, 10),
   scaled_max_rating |-> IF how = "product" THEN Mul64(Literal64(sc, 1), Literal64(k, 1))
                         ELSE Literal64(sc * k, 1),
   normalized |-> None, scaled_normalized |-> None]

\* the crawl is not running
NoCrawl ==
  /\ site = Site(NoNext, NoAnchors)
  /\ limit = 0
  /\ start_page = 1
  /\ startFile = Absent
  /\ file = Absent
  /\ documents = <<>>
  /\ seen_review_urls = {}
  /\ collected = 0
  /\ listing_queue = <<>>
  /\ entries = <<>>
  /\ pc = "done"
  /\ listingGets = [l \in ListingURLs |-> 0]
  /\ detailGets = [r \in ReviewURLs |-> 0]
  /\ getTick = 0
  /\ lastGetOk = TRUE
  /\ anyFail = FALSE
  /\ lastWarn = "none"

NormalizeInit ==
  /\ \E a \in 0..MaxTenths, sc \in Scales, k \in Factors, how \in {"product", "literal"} :
       call = NormalizeArgs(a, sc, k, how)
  /\ NoCrawl

\* normalize_rating(rating, max_rating) and
\* normalize_rating(rating * k, max_rating * k)
NormalizeCall ==
  /\ call.fn = "normalize"
  /\ call.stage = "args"
  /\ call' = [call EXCEPT
       !.normalized = Some(normalize_rating_64(call.rating, call.max_rating)),
       !.scaled_normalized = Some(normalize_rating_64(call.scaled_rating, call.scaled_max_rating)),
       !.stage = "normalized"]
  /\ UNCHANGED crawlVars

NormalizeSpec == NormalizeInit /\ [][NormalizeCall]_vars

\* ------------------------------------------------------------- _get_soup
\* The calls of _get_soup one after the other, with the events of each: the
\* call, the sleep, the GET and the return. The delays are those the scraper
\* was constructed with.
MaxCalls == 2

Delays == {-1, 0, 1, 2}

\* the delay crawl and _fetch_review hand to _get_soup: the detail delay
\* for listing pages too
DelayOfDetailOnly(kind, request_delay, detail_delay) == detail_delay

\* "delay=self.request_delay" for a listing page, "delay=self.detail_delay"
\* for a review page
DelayOf(kind, request_delay, detail_delay) ==
  IF kind = "listing" THEN request_delay ELSE detail_delay

Event(ev, kind, value) == [ev |-> ev, kind |-> kind, value |-> value]

FetchInit ==
  /\ \E rd \in Delays, dd \in Delays :
       call = [fn |-> "get_soup", stage |-> "idle", request_delay |-> rd, detail_delay |-> dd,
               kind |-> "none", delay |-> 0, calls |-> 0, trace |-> <<>>]
  /\ NoCrawl

\* crawl calls _get_soup for a listing page, _fetch_review for a review page
GetSoupCall ==
  /\ call.fn = "get_soup"
  /\ call.stage = "idle"
  /\ call.calls < MaxCalls
  /\ \E kind \in {"listing", "detail"} :
       call' = [call EXCEPT !.stage = "called", !.kind = kind,
                  !.delay = DelayOf(kind, call.request_delay, call.detail_delay),
                  !.calls = @ + 1,
                  !.trace = Append(@, Event("call", kind, "none"))]
  /\ UNCHANGED crawlVars

\* "if delay: time.sleep(delay)"; time.sleep raises ValueError on a negative
\* length
GetSoupSleep ==
  /\ call.fn = "get_soup"
  /\ call.stage = "called"
  /\ call.delay # 0
  /\ call' = IF call.delay < 0
               THEN [call EXCEPT !.stage = "raised",
                       !.trace = Append(@, Event("raise", call.kind, "ValueError"))]
               ELSE [call EXCEPT !.stage = "slept",
                       !.trace = Append(@, Event("sleep", call.kind, call.delay))]
  /\ UNCHANGED crawlVars

\* "if delay:" with a delay of 0
GetSoupNoSleep ==
  /\ call.fn = "get_soup"
  /\ call.stage = "called"
  /\ call.delay = 0
  /\ call' = [call EXCEPT !.stage = "slept"]
  /\ UNCHANGED crawlVars

\* self.session.get(url, timeout=20) and the return of the page or of None
GetSoupGet ==
  /\ call.fn = "get_soup"
  /\ call.stage = "slept"
  /\ \E status \in {Ok} \cup FailStatuses :
       call' = [call EXCEPT !.stage = "idle",
                  !.trace = @ \o <<Event("GET", call.kind, "none"), Event("return", call.kind, status)>>]
  /\ UNCHANGED crawlVars

FetchNext == GetSoupCall \/ GetSoupSleep \/ GetSoupNoSleep \/ GetSoupGet

FetchSpec == FetchInit /\ [][FetchNext]_vars

\* ------------------------------------------------------------ two sessions
\* Two sessions of crawl() on the same site, limit, start page and output
\* file, every fetch of either succeeding, followed iteration by iteration of
\* the while loop. Each session iterates the set of discovered urls in an
\* order of its own: the order of a set of strings depends on the hash seed
\* of the process.
Crawler(queue, docs, seen, c) ==
  [listing_queue |-> queue, documents |-> docs, seen_review_urls |-> seen, collected |-> c]

NotStarted == Crawler(<<>>, <<>>, {}, 0)

\* the state of crawl() when the while loop is reached
Started(f, p) == Crawler(SeedQueue(p), FileDocs(f), UrlsOf(FileDocs(f)), 0)

\* the for loop over the entries of a listing page
RECURSIVE Accept(_, _, _)
Accept(es, s, l) ==
  IF es = <<>> \/ LimitReached(s.collected, l) THEN s
  ELSE IF AlreadySeen(Head(es), s.seen_review_urls) THEN Accept(Tail(es), s, l)
  ELSE Accept(Tail(es),
              [s EXCEPT !.documents = Append(@, BuildDocument(Head(es))),
                        !.seen_review_urls = MarkSeen(@, Head(es)),
                        !.collected = @ + 1],
              l)

\* one iteration of the while loop: pop(0), the discovered urls enqueued in
\* the order given, the entries of the page worked through
Iteration(s, st, l, discovered_next) ==
  Accept(ParseListing(st.anchors[Head(s.listing_queue)]),
         [s EXCEPT !.listing_queue = Enqueue(Tail(@), discovered_next)],
         l)

TwinFiles == {Absent, File("ok", <<BuildDocument(R(1))>>)}

TwinSessions ==
  {Session(st, l, p, f) : st \in GenSites \cup {FanSite, TwoPageSiteA},
                          l \in 1..(MaxLimit + 1), p \in {1, 2}, f \in TwinFiles}

TwinInit ==
  /\ \E x \in TwinSessions :
       /\ site = x.site
       /\ limit = x.limit
       /\ start_page = x.start_page
       /\ startFile = x.file
       /\ file = x.file
  /\ documents = <<>>
  /\ seen_review_urls = {}
  /\ collected = 0
  /\ listing_queue = <<>>
  /\ entries = <<>>
  /\ pc = "start"
  /\ listingGets = [l \in ListingURLs |-> 0]
  /\ detailGets = [r \in ReviewURLs |-> 0]
  /\ getTick = 0
  /\ lastGetOk = TRUE
  /\ anyFail = FALSE
  /\ lastWarn = "none"
  /\ call = [fn |-> "twin", stage |-> "new", a |-> NotStarted, b |-> NotStarted]

\* both sessions load the file and seed their queue
TwinStart ==
  /\ call.fn = "twin"
  /\ call.stage = "new"
  /\ call' = [call EXCEPT !.stage = "crawling",
                          !.a = Started(startFile, start_page),
                          !.b = Started(startFile, start_page)]
  /\ UNCHANGED crawlVars

\* the states one iteration can leave a session in; a session whose loop
\* condition is false has returned
Iterations(s) ==
  IF LoopCond(s.listing_queue, s.collected, limit)
    THEN {Iteration(s, site, limit, discovered_next) :
            discovered_next \in Perms(site.next[Head(s.listing_queue)])}
    ELSE {s}

\* each session whose loop still runs goes through one iteration
TwinIteration ==
  /\ call.fn = "twin"
  /\ call.stage = "crawling"
  /\ \/ LoopCond(call.a.listing_queue, call.a.collected, limit)
     \/ LoopCond(call.b.listing_queue, call.b.collected, limit)
  /\ \E sa \in Iterations(call.a), sb \in Iterations(call.b) :
       call' = [call EXCEPT !.a = sa, !.b = sb]
  /\ UNCHANGED crawlVars

TwinNext ==
  \/ TwinStart
  \/ TwinIteration

TwinSpec == TwinInit /\ [][TwinNext]_vars

\* ------------------------------------------------------------ properties
DistinctUrls(docs) ==
  \A i, j \in 1..Len(docs) :
    (i # j /\ HasUrl(docs[i]) /\ HasUrl(docs[j])) => docs[i].url # docs[j].url

\* the documents appended by this session
Appended == SubSeq(documents, Len(documents) - collected + 1, Len(documents))

\* crawl() has returned
Returned == pc \in {"final_save", "final_write", "done"}

\* the session ran to its end without a failed GET and without hitting the limit
RanThrough == pc = "done" /\ ~anyFail /\ collected < limit

\* C1: after a successful checkpoint load, no document is appended for a
\* url of a loaded document and no detail GET is issued for such a url.
C1_LoadedUrlsSkipped ==
  startFile.state = "ok" =>
    \A u \in UrlsOf(startFile.docs) :
      /\ detailGets[u] = 0
      /\ \A i \in 1..Len(Appended) : Appended[i].url # u

\* a fetched listing page offered a loaded url and the loop went past it
C1_Witness ==
  /\ startFile.state = "ok"
  /\ RanThrough
  /\ collected > 0
  /\ \E l \in ListingURLs : \E u \in UrlsOf(startFile.docs) :
       listingGets[l] > 0 /\ Contains(site.anchors[l], u)

\* C2: with pairwise distinct urls in the loaded checkpoint (or none), no
\* two documents of the in-memory list, or of the output file, share a url.
C2_UrlsUnique ==
  DistinctUrls(FileDocs(startFile)) =>
    DistinctUrls(documents) /\ DistinctUrls(FileDocs(file))

\* two fetched listing pages reference a review whose document was appended
C2_Witness ==
  /\ RanThrough
  /\ DistinctUrls(FileDocs(startFile))
  /\ \E l1, l2 \in ListingURLs : \E i \in 1..Len(Appended) :
       /\ l1 # l2
       /\ listingGets[l1] > 0 /\ listingGets[l2] > 0
       /\ Contains(site.anchors[l1], Appended[i].url)
       /\ Contains(site.anchors[l2], Appended[i].url)
       /\ file = Dumped(documents)

\* C3: within a session each listing url is fetched at most once.
C3_ListingFetchedOnce == \A l \in ListingURLs : listingGets[l] <= 1

\* C4: crawl() eventually returns (unless the process is stopped from
\* outside), and when it has returned the limit is reached or the queue is
\* empty.
C4_Terminates == <>(pc \notin {"start", "loop", "entries", "save", "save_write"})

\* C5: with limit >= 0 the session never accepts more than limit documents,
\* and once it has accepted limit documents it issues no further GET.
C5_LimitRespected ==
  [][limit >= 0 =>
       /\ collected' <= limit
       /\ (collected = limit => getTick' = getTick)]_vars

\* the limit was reached while listing urls were still queued
C5_Witness ==
  /\ limit > 0
  /\ collected = limit
  /\ pc = "done"
  /\ listing_queue # <<>>

\* C6: within a session no review url is requested more than once.
C6_DetailFetchedOnce == \A u \in ReviewURLs : detailGets[u] <= 1

\* C7: on the two-page site (3 review links and a next link on page 1, 2
\* review links on page 2, all five unseen, every fetch succeeding) crawl
\* returns with 5 new documents and an empty queue for limit 10, and with 2
\* new documents and a non-empty queue for limit 2.
FiveUrls == {R(i) : i \in 1..5}

TwoPageRun ==
  /\ site \in TwoPageSites
  /\ UrlsOf(FileDocs(startFile)) \cap FiveUrls = {}
  /\ startFile.state # "badbytes"
  /\ ~anyFail
  /\ Returned

C7_TwoPageSite ==
  TwoPageRun =>
    /\ limit = 10 => (collected = 5 /\ listing_queue = <<>>)
    /\ limit = 2 => (collected = 2 /\ listing_queue # <<>>)

C7_Witness == TwoPageRun /\ limit = 2 /\ pc = "done" /\ Len(FileDocs(file)) = 2

\* C8: a failed GET leaves the document list, the seen set and the count
\* unchanged, and the crawl goes on with the next candidate (detail GET) or
\* the next queued listing url (listing GET).
C8_FailedGetSkipped ==
  [][(getTick' # getTick /\ ~lastGetOk') =>
       /\ documents' = documents
       /\ seen_review_urls' = seen_review_urls
       /\ collected' = collected
       /\ pc = "loop" => (pc' = "loop" /\ listing_queue' = Tail(listing_queue))
       /\ pc = "entries" => (/\ pc' = "entries"
                             /\ entries' = Tail(entries)
                             /\ listing_queue' = listing_queue)]_vars

\* a GET failed, a later one succeeded and the session completed
C8_Witness ==
  /\ anyFail
  /\ lastGetOk
  /\ collected > 0
  /\ pc = "done"

\* C9: an output file that exists but does not decode never aborts crawl():
\* the session starts with no documents and an empty seen set, as one
\* started without a file does.
C9_CorruptFileRecovered ==
  startFile.state \in {"badjson", "badbytes"} =>
    /\ pc # "aborted"
    /\ Appended = documents
    /\ seen_review_urls = UrlsOf(documents)

\* C10: when the run is interrupted, fewer than one batch of the accepted
\* documents is missing from the output file, and the documents loaded at
\* session start are still in it.
C10_InterruptLosesLessThanBatch ==
  pc = "interrupted" =>
    /\ Len(documents) - Len(FileDocs(file)) < SaveEvery
    /\ IsPrefix(FileDocs(startFile), FileDocs(file))

\* the documents the session started with
Loaded == SubSeq(documents, 1, Len(documents) - collected)

\* C11: whenever the number of newly accepted documents is a positive
\* multiple of 10 and the crawl is about to go on (to the next GET or to its
\* end), the output file holds the complete in-memory list: the loaded
\* documents followed by every newly accepted one.
C11_BatchPersistedBeforeNextGet ==
  (collected > 0 /\ collected % SaveEvery = 0 /\ pc \in {"loop", "entries", "final_save"}) =>
    /\ file = Dumped(documents)
    /\ Loaded = FileDocs(startFile)
    /\ Len(documents) = Len(FileDocs(startFile)) + collected

\* the tenth new document was persisted together with a loaded one and the
\* crawl went on to a further GET
C11_Witness ==
  /\ collected = SaveEvery
  /\ pc = "entries"
  /\ Len(FileDocs(startFile)) > 0
  /\ file = Dumped(documents)
  /\ ~lastGetOk

\* C12 (as stated): once the session has terminated the output file has
\* been rewritten with the in-memory list, whatever that list holds.
C12_FinalRewriteAlways == pc = "done" => file = Dumped(documents)

\* C12 (amended): once the session has terminated, the output file holds
\* the complete in-memory list if that list is not empty (whatever the
\* number of newly accepted documents, zero included); with an empty list
\* save() returns at once and the file is what it was at session start.
C12_FinalRewriteUnlessEmpty ==
  pc = "done" =>
    IF documents # <<>> THEN file = Dumped(documents) ELSE file = startFile

\* a session ended between two batches and its documents were written
C12_Witness ==
  /\ pc = "done"
  /\ collected % SaveEvery # 0
  /\ file = Dumped(documents)
  /\ file # startFile

\* C13: the in-memory list changes only by appending at its end, a file
\* that is replaced holds a prefix of the in-memory list, and every array
\* written is the in-memory list, which extends the array loaded at session
\* start.
C13_AppendOnly ==
  [][/\ IsPrefix(documents, documents')
     /\ (file' # file /\ file.state = "ok") => IsPrefix(file.docs, documents)
     /\ (file' # file /\ file'.state = "ok") =>
          (file'.docs = documents /\ IsPrefix(FileDocs(startFile), file'.docs))]_vars

\* a loaded array was rewritten with new documents after it
C13_Witness ==
  /\ startFile.state = "ok"
  /\ startFile.docs # <<>>
  /\ collected > 0
  /\ pc = "done"
  /\ file = Dumped(documents)

\* C14: a GET that fails with 403 or 429 has the effect of a GET of the
\* same url failing in any other way: the url is dropped (no retry, no
\* requeue), nothing else of the crawl changes and the crawl stays at the
\* same place; only the warning differs.
FailedGetEffect ==
  /\ UNCHANGED <<documents, seen_review_urls, collected, file, pc>>
  /\ ~lastGetOk'
  /\ anyFail'
  /\ pc = "loop" =>
       /\ listing_queue' = Tail(listing_queue)
       /\ entries' = entries
       /\ listingGets' = [listingGets EXCEPT ![Head(listing_queue)] = Bump(@)]
       /\ detailGets' = detailGets
  /\ pc = "entries" =>
       /\ entries' = Tail(entries)
       /\ listing_queue' = listing_queue
       /\ detailGets' = [detailGets EXCEPT ![Head(entries)] = Bump(@)]
       /\ listingGets' = listingGets

C14_BlockedLikeAnyFailure ==
  [][(getTick' # getTick /\ lastWarn' \in {"blocked", "failed"}) => FailedGetEffect]_vars

\* a GET was answered 403 or 429 and the crawl is at the next queued url
C14_Witness ==
  /\ lastWarn = "blocked"
  /\ pc \in {"loop", "entries"}
  /\ listing_queue # <<>>

\* C15: when a fetched listing page has no qualifying review anchor, the
\* candidate list is empty, no detail GET is made for the page, every next
\* url found on it is in the queue afterwards, and the crawl is back at the
\* head of its loop.
C15_EmptyListingPage ==
  [][(/\ pc = "loop"
      /\ getTick' # getTick
      /\ lastGetOk'
      /\ site.anchors[Head(listing_queue)] = <<>>) =>
       /\ entries' = <<>>
       /\ detailGets' = detailGets
       /\ site.next[Head(listing_queue)] \subseteq Range(listing_queue')
       /\ pc' = "loop"
       /\ UNCHANGED <<documents, seen_review_urls, collected, file>>]_vars

\* a page without review anchors was fetched, a next url found only on it
\* was fetched later, and documents were collected from it
C15_Witness ==
  /\ pc = "done"
  /\ ~anyFail
  /\ collected > 0
  /\ \E l \in ListingURLs : \E n \in site.next[l] :
       /\ listingGets[l] > 0
       /\ site.anchors[l] = <<>>
       /\ ~Contains(SeedQueue(start_page), n)
       /\ \A m \in ListingURLs \ {l} : n \notin site.next[m]
       /\ listingGets[n] > 0
       /\ site.anchors[n] # <<>>

\* --------------------------------------------------- the built documents
Built == call.fn = "build" /\ call.stage = "built"

BuiltDoc == call.doc[1]

\* C16: every built document has a rating that is absent or a value r with
\* 0 <= r <= 10, whatever rating value the detail page supplied.
C16_RatingInScale ==
  Built => (BuiltDoc.rating = None \/ (BuiltDoc.rating[1] >= 0 /\ BuiltDoc.rating[1] <= 1000))

\* the fields of a document that do not hold its rating
OtherFields(doc) == DOMAIN doc \ {"rating", "rating_value"}

RatedPages == {[call.page EXCEPT !.ratingMeta = Some(m)] : m \in {"0", "2.5", "4.0"}}

\* C17: a fetched detail page that yields no rating value still gives details
\* and a document, whose rating is absent and whose other fields are those of
\* the document built for the same page with a rating present.
C17_NoRatingStillBuilt ==
  (call.fn = "build" /\ call.stage # "fetched" /\ _extract_rating(call.page) = None) =>
    /\ call.details # None
    /\ call.details[1].rating_value = None
    /\ Built =>
         /\ BuiltDoc.rating = None
         /\ \A p \in RatedPages :
              LET rated == _build_document(call.entry, _fetch_review(p))
              IN /\ rated.rating # None
                 /\ \A f \in OtherFields(BuiltDoc) : BuiltDoc[f] = rated[f]

C17_Witness ==
  /\ Built
  /\ call.page.dataRating = Some("stars")
  /\ call.page.heading = Some(<<"Heat">>)
  /\ BuiltDoc.rating = None
  /\ BuiltDoc.title = <<"Heat">>
  /\ BuiltDoc.reviews = <<"A", "review">>

\* other documents: the entries at either review url, over pages that differ
\* in rating, heading, body and summary
OtherEntries == Entries \cup {[e EXCEPT !.url = R(2)] : e \in Entries}

OtherPages == {p \in Pages : p.ratingMeta \in {None, Some("2.5")} /\ p.starBox = None /\ p.dataRating = None}

\* C18: the id of a built document is the site name, an underscore and the
\* 12 leading hex characters of the hash of "{title}_{year}_{site}", and any
\* document with the same title, year and site has the same id, whatever its
\* url and other fields.
C18_IdOfTitleYearSite ==
  Built =>
    /\ BuiltDoc.id = <<BuiltDoc.site, "_", Md5Hex12(<<BuiltDoc.title, "_", BuiltDoc.year, "_", BuiltDoc.site>>)>>
    /\ \A e \in OtherEntries, p \in OtherPages :
         LET other == _build_document(e, _fetch_review(p))
         IN (other.title = BuiltDoc.title /\ other.year = BuiltDoc.year /\ other.site = BuiltDoc.site)
              => other.id = BuiltDoc.id

\* a document that shares title, year and site with one of another url and
\* another rating
C18_Witness ==
  /\ Built
  /\ BuiltDoc.title = <<"Heat">>
  /\ BuiltDoc.year = 1995
  /\ BuiltDoc.rating = None
  /\ \E e \in OtherEntries, p \in OtherPages :
       LET other == _build_document(e, _fetch_review(p))
       IN /\ other.title = BuiltDoc.title /\ other.year = BuiltDoc.year
          /\ other.url # BuiltDoc.url /\ other.rating # None
          /\ other.id = BuiltDoc.id

\* what the detail page yields: the words of its heading, and the year in them
DetailTitle == IF call.page.heading = None THEN <<>> ELSE clean_text(call.page.heading[1])

DetailYear == extract_year(DetailTitle)

\* C19 as stated: the title is the detail-page title when there is one and
\* the listing title otherwise, the year the detail-page year when there is
\* one and the listing year otherwise.
C19_DetailThenListing ==
  Built =>
    /\ BuiltDoc.title = (IF DetailTitle # <<>> THEN DetailTitle ELSE call.entry.title)
    /\ Some(BuiltDoc.year) = (IF DetailYear # None THEN DetailYear ELSE call.entry.year)

\* C19: the title is the detail-page title when there is one and the listing
\* title otherwise; the year is the detail-page year when there is one, else
\* the listing year when there is one, else 0.
C19_DetailThenListingThenZero ==
  Built =>
    /\ BuiltDoc.title = (IF DetailTitle # <<>> THEN DetailTitle ELSE call.entry.title)
    /\ BuiltDoc.year = (IF DetailYear # None THEN DetailYear[1]
                         ELSE IF call.entry.year # None THEN call.entry.year[1]
                         ELSE 0)

\* the detail page wins over a listing entry that has a title and a year too
C19_Witness ==
  /\ Built
  /\ call.entry.title = <<"Alien", "(2019)">>
  /\ call.entry.year = Some(2019)
  /\ BuiltDoc.title = <<"Blade", "Runner", "2049">>
  /\ BuiltDoc.year = 2049

\* ------------------------------------------------------------- pagination
\* what each strategy finds on the page of a call: the href, resolved, of the
\* element it selects
MetadataNext == HrefOf(call.soup.headLink, call.current_url)

AnchorNext ==
  HrefOf(IF call.soup.relNext # None THEN call.soup.relNext ELSE call.soup.paginationNext,
         call.current_url)

MoreReviewsNext == HrefOf(call.soup.moreReviews, call.current_url)

Occurrences(seq, x) == Cardinality({i \in DOMAIN seq : seq[i] = x})

\* C20: the list pagination discovery returns holds every same-origin url
\* found by any of the three strategies and nothing no strategy found, each
\* url once; once enqueued, each of them is in the queue exactly once.
C20_UnionOfStrategies ==
  (call.fn = "next" /\ call.stage # "parsed") =>
    /\ \A u \in MetadataNext \cup AnchorNext \cup MoreReviewsNext :
         u.origin = Some(BASE_URL) => Occurrences(call.next_urls, u) = 1
    /\ \A u \in Range(call.next_urls) :
         /\ u \in MetadataNext \cup AnchorNext \cup MoreReviewsNext
         /\ Occurrences(call.next_urls, u) = 1
         /\ call.stage = "enqueued" => Occurrences(call.listing_queue, u) = 1

\* the metadata link and the anchor control resolve to one url, which the
\* queue already holds, the "More Reviews" anchor to another
C20_Witness ==
  /\ call.fn = "next"
  /\ call.stage = "enqueued"
  /\ call.soup.headLink # call.soup.relNext
  /\ MetadataNext = {Url(BASE_URL, "/reviews/page/2")}
  /\ AnchorNext = MetadataNext
  /\ MoreReviewsNext = {Url(BASE_URL, "/reviews?more=1")}
  /\ call.queue0 = <<Url(BASE_URL, "/reviews/page/2")>>
  /\ call.listing_queue = <<Url(BASE_URL, "/reviews/page/2"), Url(BASE_URL, "/reviews?more=1")>>

\* ---------------------------------------------------------- listing parser
\* the positions of the qualifying links of the page of a call, and among
\* them those that show their url for the first time
Qualifying == {i \in DOMAIN call.links : ReviewUrl(call.links[i]) # None}

FirstOccurrences ==
  {i \in Qualifying : \A j \in Qualifying : j < i => ReviewUrl(call.links[j]) # ReviewUrl(call.links[i])}

\* the k-th smallest of a set of positions
Kth(positions, k) == CHOOSE i \in positions : Cardinality({j \in positions : j <= i}) = k

\* C21: the entries the listing parser returns are those of the first (at
\* most 50) distinct qualifying review urls in document order, each made of
\* the first link that shows the url.
C21_FirstFiftyDistinct ==
  (call.fn = "parse" /\ call.stage = "entries") =>
    LET first == FirstOccurrences
    IN /\ Len(call.entries) <= 50
       /\ Len(call.entries) = (IF Cardinality(first) < 50 THEN Cardinality(first) ELSE 50)
       /\ \A k \in DOMAIN call.entries :
            LET link == call.links[Kth(first, k)]
            IN call.entries[k] = ListingEntry(ReviewUrl(link)[1], link.text, link.teaser)

\* a page with more than 50 distinct review urls, one of them repeated
C21_Witness ==
  /\ call.fn = "parse"
  /\ call.stage = "entries"
  /\ Cardinality(FirstOccurrences) > 50
  /\ Cardinality(Qualifying) > Cardinality(FirstOccurrences)
  /\ Len(call.entries) = 50

\* ------------------------------------------------------ rating normalization
\* C22: normalize_rating(r, s) = normalize_rating(r * k, s * k) for every
\* rating r, scale s > 0 and factor k > 0.
C22_ScaleInvariant ==
  (call.fn = "normalize" /\ call.stage = "normalized" /\ call.scale > 0) =>
    call.normalized = call.scaled_normalized

\* ------------------------------------------------------------ queue order
\* a step that issues the GET of a listing page
ListingGet == pc = "loop" /\ getTick' # getTick

\* C23: the listing queue is seeded with the start-page url (when
\* start_page > 1) followed by the two seeds in their order; every listing
\* GET is for the url at the front of the queue, the urls behind it keep
\* their order and the discovered ones go to the back; nothing else changes
\* the queue.
C23_FifoOrder ==
  [][/\ (pc = "start" /\ pc' = "loop") =>
          listing_queue' = (IF start_page > 1 THEN <<StartPageUrl(start_page)>> ELSE <<>>)
                             \o <<Home, Reviews>>
     /\ ListingGet =>
          /\ \A l \in ListingURLs \ {Head(listing_queue)} : listingGets'[l] = listingGets[l]
          /\ listingGets[Head(listing_queue)] < GetCap =>
                listingGets'[Head(listing_queue)] = listingGets[Head(listing_queue)] + 1
          /\ IsPrefix(Tail(listing_queue), listing_queue')
     /\ listing_queue' # listing_queue => (pc = "start" \/ ListingGet)]_vars

\* the start page, both seeds and a discovered page were fetched, once each
C23_Witness ==
  /\ start_page = 3
  /\ listingGets[Page3] = 1
  /\ listingGets[Home] = 1
  /\ listingGets[Reviews] = 1
  /\ listingGets[Page2] = 1
  /\ listing_queue = <<>>

\* ------------------------------------------------------------ the seen set
\* C24: at every step of the crawl the seen-url set is the set of the urls
\* of the documents in memory; it changes when the file is loaded and when a
\* document is appended, by the url of that document, and at no other step,
\* a failed detail fetch included.
C24_SeenIsDocumentUrls ==
  [][/\ seen_review_urls = UrlsOf(documents)
     /\ seen_review_urls' = UrlsOf(documents')
     /\ (pc = "start" /\ pc' = "loop") => seen_review_urls' = UrlsOf(FileDocs(startFile))
     /\ (pc # "start" /\ documents' # documents) =>
          /\ documents' = Append(documents, documents'[Len(documents')])
          /\ seen_review_urls' = seen_review_urls \cup {documents'[Len(documents')].url}
          /\ seen_review_urls' # seen_review_urls
     /\ (pc # "start" /\ documents' = documents) => seen_review_urls' = seen_review_urls]_vars

\* a loaded file with a document without url, a document appended, and a
\* candidate whose fetch failed
C24_Witness ==
  /\ startFile = File("ok", <<NoUrlDoc, BuildDocument(R(2))>>)
  /\ Len(documents) = 3
  /\ seen_review_urls = {R(1), R(2)}
  /\ detailGets[R(3)] >= 1
  /\ ~lastGetOk

\* ------------------------------------------------------------- politeness
\* what comes before event i of the trace of a call sequence, from the call
\* of _get_soup on
SinceCall(i) ==
  LET c == CHOOSE j \in 1..i : call.trace[j].ev = "call" /\ \A k \in (j + 1)..i : call.trace[k].ev # "call"
  IN SubSeq(call.trace, c, i - 1)

ConfiguredDelay(kind) == IF kind = "listing" THEN call.request_delay ELSE call.detail_delay

\* C25: in every call of _get_soup the GET comes right after a sleep of the
\* configured delay of its kind (listing or detail) and nothing else, no
\* sleep at all standing for a delay of 0; a call that returns has issued one
\* GET; the outcomes of earlier calls change nothing.
C25_SleepThenOneGet ==
  call.fn = "get_soup" =>
    \A i \in DOMAIN call.trace :
      LET e == call.trace[i]
      IN /\ e.ev = "GET" =>
              SinceCall(i) = <<Event("call", e.kind, "none")>>
                               \o (IF ConfiguredDelay(e.kind) = 0 THEN <<>>
                                    ELSE <<Event("sleep", e.kind, ConfiguredDelay(e.kind))>>)
         /\ e.ev = "return" => call.trace[i - 1] = Event("GET", e.kind, "none")

\* a listing fetch that failed, then a detail fetch, with different delays
C25_Witness ==
  /\ call.fn = "get_soup"
  /\ call.request_delay = 2
  /\ call.detail_delay = 1
  /\ Len(call.trace) = 8
  /\ call.trace[4] = Event("return", "listing", "429")
  /\ call.trace[6] = Event("sleep", "detail", 1)
  /\ call.trace[7].ev = "GET"

\* ----------------------------------------------------------------- origin
SameOrigin(url) == url.origin = Some("https://www.rogerebert.com")

\* C26: every listing url pagination discovery enqueues and every candidate
\* review url the listing parser returns has the origin of the site,
\* https://www.rogerebert.com.
C26_OnlySiteOrigin ==
  /\ (call.fn = "next" /\ call.stage = "enqueued") =>
       \A u \in Range(call.listing_queue) \ Range(call.queue0) : SameOrigin(u)
  /\ (call.fn = "parse" /\ call.stage = "entries") =>
       \A i \in DOMAIN call.entries : SameOrigin(call.entries[i].url)

\* ------------------------------------------------------------ review body
\* C27: for a detail page without content container the extracted review
\* body is empty, and so is the reviews field of the document.
C27_ReviewsIsBody ==
  (Built /\ call.page.body = None) =>
    /\ _extract_review_body(call.page) = <<>>
    /\ BuiltDoc.reviews = <<>>

\* -------------------------------------------------------- rating extraction
\* the number each probe yields on the page of a call, None when the probed
\* element is missing or holds no number
MetaProbe ==
  IF call.page.ratingMeta = None THEN None ELSE Float(call.page.ratingMeta[1])

StarProbe ==
  IF call.page.starBox = None THEN None
  ELSE LET numbers == SelectSeq(call.page.starBox[1], LAMBDA cls : StarValue(cls) # None)
       IN IF numbers = <<>> THEN None ELSE StarValue(numbers[1])

WidgetProbe ==
  IF call.page.dataRating = None THEN None ELSE Float(call.page.dataRating[1])

\* C28: the rating value extracted is the number of the first of the probes
\* metadata tag, star-icon class, rating-widget attribute that yields one,
\* whatever the later probes hold, and is absent only if none yields one.
C28_FirstProbeWins ==
  (call.fn = "build" /\ call.stage # "fetched") =>
    call.details[1].rating_value =
      (IF MetaProbe # None THEN MetaProbe
       ELSE IF StarProbe # None THEN StarProbe
       ELSE WidgetProbe)

\* a meta tag and a star box that hold no number, and a widget that does
C28_Witness ==
  /\ call.fn = "build"
  /\ call.stage = "details"
  /\ call.page.ratingMeta = Some("n/a")
  /\ call.page.starBox = Some(<<"filled">>)
  /\ call.page.dataRating = Some("3")
  /\ call.details[1].rating_value = Some(300)

\* ------------------------------------------------- no url twice in the queue
\* C29: at every moment of the crawl, from the seeding of the queue through
\* every enqueue of discovered urls, no url is at two positions of the
\* listing queue.
C29_QueueHoldsNoUrlTwice ==
  \A i, j \in DOMAIN listing_queue : listing_queue[i] = listing_queue[j] => i = j

\* the home page was fetched and exposes three urls, one of them in the queue
\* already: the queue holds that one once, and the two others
C29_Witness ==
  /\ site = FanSite
  /\ listingGets[Home] = 1
  /\ lastGetOk
  /\ Reviews \in site.next[Home]
  /\ Range(listing_queue) = {Reviews, Page2, Page3}
  /\ Len(listing_queue) = 3

\* ------------------------------------------------------------ determinism
\* C30: two sessions started from the same output file, limit and start
\* page on the same site, every fetch of both succeeding, hold the same
\* listing queue and the same documents in the same order after every
\* iteration, whatever number of next-page urls a listing page exposes.
C30_TwinSessionsAgree ==
  call.fn = "twin" =>
    /\ call.a.listing_queue = call.b.listing_queue
    /\ call.a.documents = call.b.documents

TypeOK ==
  /\ call.fn \in {"none", "build", "next", "parse", "normalize", "get_soup", "twin"}
  /\ pc \in {"start", "loop", "entries", "save", "save_write", "final_save",
              "final_write", "done", "aborted", "interrupted"}
  /\ collected \in Nat
  /\ seen_review_urls \subseteq ReviewURLs
  /\ Range(listing_queue) \subseteq ListingURLs
  /\ Range(entries) \subseteq ReviewURLs
  /\ file.state \in {"absent", "ok", "badjson", "badbytes"}
  /\ lastWarn \in {"none", "blocked", "failed"}

====
